---- MODULE Spec2Model ----
(***************************************************************************)
(* Temporal features of an event log (log_to_features/variants/temporal.py) *)
(* and the performance-spectrum dispatcher                                 *)
(* (discovery/performance_spectrum/algorithm.py).                          *)
(*                                                                         *)
(* Instants are whole seconds since the epoch (Timestamp.timestamp()).     *)
(* A mean is kept as the pair it is computed from, [num, den]: the sum of  *)
(* the values and their number; the mean of no value (0/0) is NaN.         *)
(***************************************************************************)
EXTENDS Integers, Sequences, FiniteSets, TLC

\* ---------------------------------------------------------------- bounds
MaxEvents == 3          \* events of a table
MaxRateTime == 1        \* latest start instant of the tables of SpecRates
MaxActivities == 3      \* length of list_activities

Cases == {1, 2}
RateCases == {1, 2, 3}
NoResource == "NaN"
\* the shapes of an event: an instantaneous one, and one that lasts, of another
\* activity and without a resource
Shapes == {[span |-> 0, activity |-> "a", resource |-> "r"],
           [span |-> 1, activity |-> "b", resource |-> NoResource]}

\* ------------------------------------------------------------- parameters
GrouperFreq == 2
MsPerSecond == 1000

\* latest start instant of the tables of Spec: the instants 0..MaxTime span
\* three windows, so that the window between two occupied ones can be empty
MaxTime == 2 * GrouperFreq

VARIABLES
    pc,             \* position in apply
    log,            \* the dataframe, with the columns added so far
    dataframe,      \* the returned table
    error,          \* the exception that left apply, or "none"
    ps_pc,          \* position in the performance-spectrum apply
    ps_log,         \* the runtime type of its log argument
    pandas,         \* whether pkgutil finds a loader for pandas
    list_activities,
    variant_arg,    \* the variant argument as passed
    variant,        \* the local variable variant
    points,
    calls,          \* the variants applied so far, and on what
    conversions,    \* the number of calls of log_conversion.apply
    ps              \* the returned bundle, <<>> while there is none

tvars == <<pc, log, dataframe, error>>
psvars == <<ps_pc, ps_log, pandas, list_activities, variant_arg, variant, points,
            calls, conversions, ps>>
vars == <<tvars, psvars>>

\* ------------------------------------------------------------- the tables
Event(cs, latest) ==
    {[case |-> c, start |-> t, complete |-> t + x.span,
      activity |-> x.activity, resource |-> x.resource] :
        c \in cs, t \in 0..latest, x \in Shapes}

\* the sequences over S of length n at most
IsSeqUpTo(s, S, n) == \E k \in 0..n : s \in [1..k -> S]

TableEvents == Event(Cases, MaxTime)
RateTableEvents == Event(RateCases, MaxRateTime)

\* ------------------------------------------------------------ sequences
RECURSIVE SumSeq(_)
SumSeq(s) == IF s = <<>> THEN 0 ELSE Head(s) + SumSeq(Tail(s))

\* the sum of f over the set S
RECURSIVE SumOver(_, _)
SumOver(f, S) ==
    IF S = {} THEN 0
    ELSE LET x == CHOOSE y \in S : TRUE IN f[x] + SumOver(f, S \ {x})

SetMin(S) == CHOOSE x \in S : \A y \in S : x <= y
SetMax(S) == CHOOSE x \in S : \A y \in S : y <= x

Rows(l, c) == {i \in DOMAIN l : l[i].case = c}
CaseIds(l) == {l[i].case : i \in DOMAIN l}

\* log.groupby(case_id_column)[start_timestamp_column].agg(min), .timestamp()
GroupMinStart(l) == [c \in CaseIds(l) |-> SetMin({l[i].start : i \in Rows(l, c)})]
\* log.groupby(case_id_column)[timestamp_column].agg(max), .timestamp()
GroupMaxComplete(l) == [c \in CaseIds(l) |-> SetMax({l[i].complete : i \in Rows(l, c)})]

\* the key of list.sort: (x[1], x[0])
KeyLeq(x, y) == x[2] < y[2] \/ (x[2] = y[2] /\ x[1] <= y[1])

\* [[x, y] for x, y in d.items()] followed by .sort(key=lambda x: (x[1], x[0]))
RECURSIVE SortItems(_)
SortItems(S) ==
    IF S = {} THEN <<>>
    ELSE LET m == CHOOSE x \in S : \A y \in S : KeyLeq(x, y)
         IN  <<m>> \o SortItems(S \ {m})

Items(d) == {<<c, d[c]>> : c \in DOMAIN d}

\* the loop run upwards: each step reads a value the step before has overwritten
RECURSIVE DiffLoopForward(_, _)
DiffLoopForward(lst, i) ==
    IF i > 1
    THEN LET prev == DiffLoopForward(lst, i - 1)
         IN  [prev EXCEPT ![i] = <<prev[i][1], prev[i][2] - prev[i - 1][2]>>]
    ELSE lst

\* while i > 0: lst[i][1] = lst[i][1] - lst[i-1][1]; i = i - 1
\* (positions are 1-based here: Python's i is i - 1)
RECURSIVE DiffLoop(_, _)
DiffLoop(lst, i) ==
    IF i > 1
    THEN DiffLoop([lst EXCEPT ![i] = <<lst[i][1], lst[i][2] - lst[i - 1][2]>>], i - 1)
    ELSE lst

\* the first entry left as the loop leaves it
ZeroFirstSkipped(lst) == lst

\* lst[0][1] = 0
ZeroFirst(lst) == [lst EXCEPT ![1] = <<lst[1][1], 0>>]

\* {x[0]: x[1] for x in lst}
ToDict(lst) ==
    [c \in {lst[i][1] : i \in DOMAIN lst} |->
        LET i == CHOOSE j \in DOMAIN lst : lst[j][1] = c IN lst[i][2]]

Rates(d) == ToDict(ZeroFirst(DiffLoop(SortItems(Items(d)), Cardinality(DOMAIN d))))

\* log[arrival_rate] = log[case_id_column].map(case_arrival), and finish_rate
WithRates(l) ==
    LET case_arrival == Rates(GroupMinStart(l))
        case_finish == Rates(GroupMaxComplete(l))
    IN  [i \in DOMAIN l |->
            [case |-> l[i].case, start |-> l[i].start, complete |-> l[i].complete,
             activity |-> l[i].activity, resource |-> l[i].resource,
             arrival_rate |-> case_arrival[l[i].case],
             finish_rate |-> case_finish[l[i].case]]]

\* (log[timestamp_column] - log[start_timestamp_column]).astype("timedelta64[ms]"):
\* the span as a number of milliseconds
DiffStartEnd(r) == (r.complete - r.start) * MsPerSecond

\* log.groupby(case_id_column)[diff_start_end].sum(), of the column of spans
ServiceTimes(l, diff_start_end) ==
    [c \in CaseIds(l) |-> SumOver(diff_start_end, Rows(l, c))]

\* complete_timestamps[x].timestamp() - start_timestamps[x].timestamp()
SojournTimes(l) ==
    LET start_timestamps == GroupMinStart(l)
        complete_timestamps == GroupMaxComplete(l)
    IN  [c \in DOMAIN start_timestamps |-> complete_timestamps[c] - start_timestamps[c]]

\* log[waiting_time] = log[sojourn_time] - log[service_time]
WaitingTime(sojourn, service) == sojourn - service

WithServiceWaiting(l) ==
    LET diff_start_end == [i \in DOMAIN l |-> DiffStartEnd(l[i])]
        service_times == ServiceTimes(l, diff_start_end)
        sojourn_time_cases == SojournTimes(l)
    IN  [i \in DOMAIN l |->
            [case |-> l[i].case, start |-> l[i].start, complete |-> l[i].complete,
             activity |-> l[i].activity, resource |-> l[i].resource,
             arrival_rate |-> l[i].arrival_rate, finish_rate |-> l[i].finish_rate,
             diff_start_end |-> diff_start_end[i],
             service_time |-> service_times[l[i].case],
             sojourn_time |-> sojourn_time_cases[l[i].case],
             waiting_time |-> WaitingTime(sojourn_time_cases[l[i].case],
                                          service_times[l[i].case])]]

\* ------------------------------------------------------------ the grouper
\* a time grouper always sorts the frame on its key, by a stable sort
RECURSIVE SortByStart(_, _)
SortByStart(l, I) ==
    IF I = {} THEN <<>>
    ELSE LET m == CHOOSE i \in I : \A j \in I :
                      l[i].start < l[j].start \/ (l[i].start = l[j].start /\ i <= j)
         IN  <<l[m]>> \o SortByStart(l, I \ {m})

\* the left edge of the window an instant falls in
BinStart(t) == (t \div GrouperFreq) * GrouperFreq

\* the window closed at both ends
InBinClosed(t, lo) == lo <= t /\ t <= lo + GrouperFreq

\* the half-open window [lo, lo + freq)
InBin(t, lo) == lo <= t /\ t < lo + GrouperFreq

\* the labels of the windows that hold an event only
BinLabelsNonEmpty(l) ==
    LET S == {BinStart(l[i].start) : i \in DOMAIN l}
        n == Cardinality(S)
    IN  [k \in 1..n |-> CHOOSE b \in S : Cardinality({x \in S : x < b}) = k - 1]

\* the labels of the bins: every window from the one of the earliest key to the
\* one of the latest, whether or not an event falls in it
BinLabels(l) ==
    IF l = <<>> THEN <<>>
    ELSE LET lo == BinStart(SetMin({l[i].start : i \in DOMAIN l}))
             hi == BinStart(SetMax({l[i].start : i \in DOMAIN l}))
         IN  [k \in 1..((hi - lo) \div GrouperFreq + 1) |-> lo + (k - 1) * GrouperFreq]

\* the frame of one group: the rows of the bin, of a frame sorted on the key
Gval(sorted, lo) == SelectSeq(sorted, LAMBDA r : InBin(r.start, lo))

\* every row of the group, a case as often as it has events there
GvalAllRows(gval) == [i \in DOMAIN gval |-> gval[i]]

\* gval.groupby(case_id_column).first(): one row per case, its first in gval
GvalFirst(gval) == [c \in CaseIds(gval) |-> gval[SetMin(Rows(gval, c))]]

\* Series.mean(): sum / count, NaN (den = 0) for an empty series
Mean(f) == [num |-> SumOver(f, DOMAIN f), den |-> Cardinality(DOMAIN f)]

IsNaN(cell) == cell.den = 0

\* Series.nunique(): the distinct values, the missing ones (na) not counted
NUnique(S, na) == Cardinality(S \ na)

\* the body of the loop over the groups
Dct(gkey, gval) ==
    LET gval_first == GvalFirst(gval)
        col(name) == [c \in DOMAIN gval_first |-> gval_first[c][name]]
    IN  [timestamp |-> gkey,
         unique_resources |-> NUnique({gval[i].resource : i \in DOMAIN gval}, {NoResource}),
         unique_cases |-> NUnique({gval[i].case : i \in DOMAIN gval}, {}),
         unique_activities |-> NUnique({gval[i].activity : i \in DOMAIN gval}, {}),
         num_events |-> Len(gval),
         average_arrival_rate |-> Mean(col("arrival_rate")),
         average_finish_rate |-> Mean(col("finish_rate")),
         average_waiting_time |-> Mean(col("waiting_time")),
         average_sojourn_time |-> Mean(col("sojourn_time")),
         average_service_time |-> Mean(col("service_time"))]

FinalValues(l) ==
    LET labels == BinLabels(l)
        sorted == SortByStart(l, DOMAIN l)
    IN  [k \in DOMAIN labels |-> Dct(labels[k], Gval(sorted, labels[k]))]

\* the cell left as it is
FillNaSkipped(cell) == cell

\* fillna(0) on one cell
FillNa(cell) == IF IsNaN(cell) THEN [num |-> 0, den |-> 1] ELSE cell

\* pd.DataFrame(final_values); dataframe.fillna(0, inplace=True)
FilledFrame(fv) ==
    [k \in DOMAIN fv |->
        [fv[k] EXCEPT !.average_arrival_rate = FillNa(@),
                      !.average_finish_rate = FillNa(@),
                      !.average_waiting_time = FillNa(@),
                      !.average_sojourn_time = FillNa(@),
                      !.average_service_time = FillNa(@)]]

\* ------------------------------------------------ performance spectrum
None == "None"
LogTypes == {"DataFrame", "EventLog", "EventStream"}
Variants == {"DATAFRAME", "LOG", "DATAFRAME_DISCONNECTED", "LOG_DISCONNECTED"}
Activities == {"a", "b"}
\* what a variant's apply may hand back
VariantResults == {None, "points"}

PsIdle ==
    /\ ps_pc = "idle"
    /\ ps_log = "DataFrame"
    /\ pandas = TRUE
    /\ list_activities = <<>>
    /\ variant_arg = None
    /\ variant = None
    /\ points = None
    /\ calls = <<>>
    /\ conversions = 0
    /\ ps = <<>>

\* ---------------------------------------------------------- temporal apply
\* log_converter.apply(log, variant=TO_DATA_FRAME) hands back the dataframe it is
\* given: apply starts on a table of events
InitWith(E) ==
    /\ IsSeqUpTo(log, E, MaxEvents)
    /\ pc = "rates"
    /\ dataframe = <<>>
    /\ error = "none"
    /\ PsIdle

\* insert_arrival_finish_rate; case_arrival[0] of an empty list raises IndexError
InsertArrivalFinishRate ==
    /\ pc = "rates"
    /\ IF CaseIds(log) = {}
       THEN /\ pc' = "raised"
            /\ error' = "IndexError"
            /\ UNCHANGED log
       ELSE /\ log' = WithRates(log)
            /\ pc' = "service"
            /\ UNCHANGED error
    /\ UNCHANGED <<dataframe, psvars>>

\* insert_service_waiting_time
InsertServiceWaitingTime ==
    /\ pc = "service"
    /\ log' = WithServiceWaiting(log)
    /\ pc' = "group"
    /\ UNCHANGED <<dataframe, error, psvars>>

\* the groupby on the grouper, the loop over its groups, and the dataframe of the
\* dictionaries with its missing cells filled with 0
Aggregate ==
    /\ pc = "group"
    /\ dataframe' = FilledFrame(FinalValues(log))
    /\ pc' = "done"
    /\ UNCHANGED <<log, error, psvars>>

Next ==
    \/ InsertArrivalFinishRate
    \/ InsertServiceWaitingTime
    \/ Aggregate

Init == InitWith(TableEvents)
Spec == Init /\ [][Next]_vars

InitRates == InitWith(RateTableEvents)
SpecRates == InitRates /\ [][Next]_vars

\* ------------------------------------------- performance-spectrum apply
InitPS ==
    /\ pc = "idle"
    /\ log = <<>>
    /\ dataframe = <<>>
    /\ error = "none"
    /\ ps_pc = "start"
    /\ ps_log \in LogTypes
    /\ pandas \in BOOLEAN
    /\ (ps_log = "DataFrame" => pandas)     \* a DataFrame exists only with pandas
    /\ IsSeqUpTo(list_activities, Activities, MaxActivities)
    /\ variant_arg \in Variants \cup {None}
    /\ variant = variant_arg
    /\ points = None
    /\ calls = <<>>
    /\ conversions = 0
    /\ ps = <<>>

\* the check with the threshold one too low
CheckActivitiesOffByOne ==
    /\ ps_pc = "start"
    /\ IF Len(list_activities) < 1
       THEN /\ ps_pc' = "raised"
            /\ error' = "Exception"
       ELSE /\ ps_pc' = "tabular"
            /\ UNCHANGED error
    /\ points' = None
    /\ UNCHANGED <<pc, log, dataframe>>
    /\ UNCHANGED <<ps_log, pandas, list_activities, variant_arg, variant, calls,
                   conversions, ps>>

\* if len(list_activities) < 2: raise Exception(...); points = None
CheckActivities ==
    /\ ps_pc = "start"
    /\ IF Len(list_activities) < 2
       THEN /\ ps_pc' = "raised"
            /\ error' = "Exception"
       ELSE /\ ps_pc' = "tabular"
            /\ UNCHANGED error
    /\ points' = None
    /\ UNCHANGED <<pc, log, dataframe>>
    /\ UNCHANGED <<ps_log, pandas, list_activities, variant_arg, variant, calls,
                   conversions, ps>>

\* if pkgutil.find_loader("pandas"): if type(log) is pd.DataFrame: ...
ApplyTabular ==
    /\ ps_pc = "tabular"
    /\ IF pandas /\ ps_log = "DataFrame"
       THEN /\ variant' = IF variant = None THEN "DATAFRAME" ELSE variant
            /\ calls' = Append(calls, [variant |-> variant', on |-> "log"])
            /\ points' \in VariantResults
       ELSE UNCHANGED <<variant, calls, points>>
    /\ ps_pc' = "fallback"
    /\ UNCHANGED tvars
    /\ UNCHANGED <<ps_log, pandas, list_activities, variant_arg, conversions, ps>>

\* if points is None: ...
ApplyConverted ==
    /\ ps_pc = "fallback"
    /\ IF points = None
       THEN /\ variant' = IF variant = None THEN "LOG" ELSE variant
            /\ conversions' = conversions + 1
            /\ calls' = Append(calls, [variant |-> variant', on |-> "converted"])
            /\ points' \in VariantResults
       ELSE UNCHANGED <<variant, conversions, calls, points>>
    /\ ps_pc' = "return"
    /\ UNCHANGED tvars
    /\ UNCHANGED <<ps_log, pandas, list_activities, variant_arg, ps>>

\* ps = {"list_activities": list_activities, "points": points}; return ps
ReturnBundle ==
    /\ ps_pc = "return"
    /\ ps' = <<[list_activities |-> list_activities, points |-> points]>>
    /\ ps_pc' = "done"
    /\ UNCHANGED tvars
    /\ UNCHANGED <<ps_log, pandas, list_activities, variant_arg, variant, points,
                   calls, conversions>>

NextPS ==
    \/ CheckActivities
    \/ ApplyTabular
    \/ ApplyConverted
    \/ ReturnBundle

SpecPS == InitPS /\ [][NextPS]_vars

\* ================================================================ claims
\* the arrival and the finish instant of every case of the table
Arrivals == [c \in CaseIds(log) |-> SetMin({log[i].start : i \in Rows(log, c)})]
Finishes == [c \in CaseIds(log) |-> SetMax({log[i].complete : i \in Rows(log, c)})]

\* case c comes strictly before case d in the ascending order by (instant, case_id)
Before(f, c, d) == f[c] < f[d] \/ (f[c] = f[d] /\ c < d)

\* the case ranked first, and the case ranked just before c
First(f) == CHOOSE c \in DOMAIN f : \A d \in DOMAIN f : ~Before(f, d, c)
Pred(f, c) ==
    CHOOSE p \in DOMAIN f :
        /\ Before(f, p, c)
        /\ \A d \in DOMAIN f : ~(Before(f, p, d) /\ Before(f, d, c))

\* the value of a case-level column for case c
CaseScalar(c, name) == log[CHOOSE i \in DOMAIN log : log[i].case = c][name]

\* C1: after insert_arrival_finish_rate on a table with at least one case, every
\* event of the case ranked first by (arrival instant, case_id) has
\* arrival_rate = 0 and every event of the case ranked first by
\* (finish instant, case_id) has finish_rate = 0.
C1_FirstRankedRateZero ==
    (pc = "service" /\ log # <<>>) =>
        LET first_arrival == First(Arrivals)
            first_finish == First(Finishes)
        IN  \A i \in DOMAIN log :
                /\ log[i].case = first_arrival => log[i].arrival_rate = 0
                /\ log[i].case = first_finish => log[i].finish_rate = 0

\* C1 witness: the rates are in, the first case by arrival is not the first by
\* finish, neither ranking starts at instant 0, and both cases have their zero.
C1_Witness ==
    /\ pc = "service"
    /\ log # <<>>
    /\ First(Arrivals) # First(Finishes)
    /\ Arrivals[First(Arrivals)] > 0
    /\ CaseScalar(First(Arrivals), "arrival_rate") = 0
    /\ CaseScalar(First(Arrivals), "finish_rate") > 0
    /\ CaseScalar(First(Finishes), "finish_rate") = 0

\* the column holds, for every case but the first of the ranking by f, the
\* instant of the case minus the instant of the case ranked just before it
IsDeltaToPredecessor(f, name) ==
    \A c \in DOMAIN f \ {First(f)} :
        LET p == Pred(f, c)
        IN  \A i \in Rows(log, c) :
                /\ log[i][name] = f[c] - f[p]
                /\ log[i][name] >= 0
                /\ f[c] = f[p] => log[i][name] = 0

\* C10: for a case that is not first in the (arrival instant, case_id) ranking,
\* arrival_rate is its original arrival instant minus the original arrival instant
\* of the case ranked just before it: never negative, and 0 on a tie. The same
\* for finish_rate over the finish ranking.
C10_RateIsDeltaToPredecessor ==
    pc = "service" =>
        LET arr == Arrivals
            fin == Finishes
        IN  /\ IsDeltaToPredecessor(arr, "arrival_rate")
            /\ IsDeltaToPredecessor(fin, "finish_rate")

\* C10 witness: three cases in each ranking, the first after instant 0; by
\* arrival all three tied (rates 0), by finish the second tied with the first
\* (rate 0) and the third strictly later (rate > 0).
C10_Witness ==
    /\ pc = "service"
    /\ Cardinality(CaseIds(log)) = 3
    /\ Arrivals[First(Arrivals)] > 0
    /\ Finishes[First(Finishes)] > 0
    /\ \A c \in CaseIds(log) : CaseScalar(c, "arrival_rate") = 0
    /\ \E c, d \in CaseIds(log) \ {First(Finishes)} :
          /\ Pred(Finishes, c) = First(Finishes)
          /\ Pred(Finishes, d) = c
          /\ CaseScalar(c, "finish_rate") = 0
          /\ CaseScalar(d, "finish_rate") > 0

\* the events whose start falls in the window beginning at lo
EventsInWindow(lo) ==
    {i \in DOMAIN log : lo <= log[i].start /\ log[i].start < lo + GrouperFreq}

\* C2: the num_events of the returned rows add up to the number of events of the
\* log, each row counting the events whose start timestamp lies in its window.
C2_EventsCountedOnce ==
    pc = "done" =>
        /\ SumSeq([k \in DOMAIN dataframe |-> dataframe[k].num_events]) = Len(log)
        /\ \A k \in DOMAIN dataframe :
              dataframe[k].num_events = Cardinality(EventsInWindow(dataframe[k].timestamp))

\* C2 witness: three events spread over two adjacent windows, one of them
\* starting on the edge between the two.
C2_Witness ==
    /\ pc = "done"
    /\ Len(log) = 3
    /\ Len(dataframe) = 2
    /\ \E i \in DOMAIN log : log[i].start = dataframe[2].timestamp
    /\ dataframe[1].num_events = 2
    /\ dataframe[2].num_events = 1

IsZero(cell) == cell.num = 0 /\ cell.den > 0

MeanColumns ==
    {"average_arrival_rate", "average_finish_rate", "average_waiting_time",
     "average_sojourn_time", "average_service_time"}

C4_EmptyTableReturnsNoRows ==
    (log = <<>> /\ pc \in {"done", "raised"}) =>
        (pc = "done" /\ error = "none" /\ dataframe = <<>>)

\* the spans of the events of case c tile the case's interval: no overlap, no gap
Tiles(c) ==
    LET I == Rows(log, c)
        span == [i \in I |-> log[i].complete - log[i].start]
    IN  /\ \A i, j \in I :
              i # j => (log[i].complete <= log[j].start
                        \/ log[j].complete <= log[i].start)
        /\ SumOver(span, I) = Finishes[c] - Arrivals[c]

\* C5: for a case whose events tile its interval, service_time equals
\* sojourn_time and waiting_time is 0 on every event of the case.
C5_TilingCaseWaitsZero ==
    pc = "group" =>
        \A c \in CaseIds(log) :
            Tiles(c) =>
                \A i \in Rows(log, c) :
                    /\ log[i].service_time = log[i].sojourn_time
                    /\ log[i].waiting_time = 0

\* C6: with fewer than two activities the performance-spectrum apply raises, and
\* it does so with no log converted, no variant applied and no bundle returned.
C6_RejectsBeforeAnyWork ==
    Len(list_activities) < 2 =>
        /\ ps_pc \in {"idle", "start", "raised"}
        /\ ps_pc = "raised" => error = "Exception"
        /\ conversions = 0
        /\ calls = <<>>
        /\ ps = <<>>

\* C6 witness: a raise on a single activity, for a tabular log with a variant given.
C6_Witness ==
    /\ ps_pc = "raised"
    /\ Len(list_activities) = 1
    /\ ps_log = "DataFrame"
    /\ variant_arg = "LOG_DISCONNECTED"
    /\ calls = <<>>

\* C7: with no variant given, a tabular log is handled by the tabular strategy
\* and any other log by the log-object strategy, and the fallback after the
\* tabular strategy yielded no points runs the log-object strategy on the
\* converted log.
C7_StrategyByTypeAndFallback ==
    variant_arg = None =>
        /\ \A k \in DOMAIN calls :
              /\ calls[k].on = "log" =>
                    (ps_log = "DataFrame" /\ calls[k].variant = "DATAFRAME")
              /\ calls[k].on = "converted" => calls[k].variant = "LOG"
        /\ (ps_pc \in {"fallback", "return", "done"} /\ ps_log = "DataFrame") =>
              (calls # <<>> /\ calls[1].on = "log")
        /\ (ps_pc \in {"return", "done"} /\ ps_log # "DataFrame") =>
              calls = <<[variant |-> "LOG", on |-> "converted"]>>

\* the cases with an event in the window beginning at lo
CasesInWindow(lo) == {log[i].case : i \in EventsInWindow(lo)}

\* the cell holds the mean of the column over the cases cs, each taken once;
\* of[c] is an event of case c
IsMeanPerCase(cell, cs, of, name) ==
    /\ cell.den > 0
    /\ cell.num * Cardinality(cs) = SumOver([c \in cs |-> log[of[c]][name]], cs) * cell.den

\* C8: in every returned row the five averages are the arithmetic means of the
\* case-level scalars over the distinct cases with an event in the row's
\* window, each case taken once whatever its number of events there.
C8_AveragesOncePerCase ==
    pc = "done" =>
        \A k \in DOMAIN dataframe :
            LET row == dataframe[k]
                cs == CasesInWindow(row.timestamp)
                of == [c \in cs |-> CHOOSE i \in DOMAIN log : log[i].case = c]
            IN  cs # {} =>
                    /\ IsMeanPerCase(row.average_arrival_rate, cs, of, "arrival_rate")
                    /\ IsMeanPerCase(row.average_finish_rate, cs, of, "finish_rate")
                    /\ IsMeanPerCase(row.average_waiting_time, cs, of, "waiting_time")
                    /\ IsMeanPerCase(row.average_sojourn_time, cs, of, "sojourn_time")
                    /\ IsMeanPerCase(row.average_service_time, cs, of, "service_time")

\* C8 witness: a window with two events of one case and one event of another,
\* the two cases differing in arrival rate and in service time.
C8_Witness ==
    /\ pc = "done"
    /\ \E k \in DOMAIN dataframe :
          /\ dataframe[k].num_events = 3
          /\ dataframe[k].unique_cases = 2
          /\ CaseScalar(1, "arrival_rate") # CaseScalar(2, "arrival_rate")
          /\ CaseScalar(1, "service_time") # CaseScalar(2, "service_time")

\* C9: no numeric cell of a returned row is missing, and a statistic without
\* contributing data in its window is reported as 0.
C9_NoMissingCell ==
    pc = "done" =>
        \A k \in DOMAIN dataframe :
            LET row == dataframe[k]
                nodata == EventsInWindow(row.timestamp) = {}
            IN  \A name \in MeanColumns :
                    /\ ~IsNaN(row[name])
                    /\ nodata => IsZero(row[name])

\* C9 witness: a window without data, whose means are those of no value,
\* reported as 0 next to a window whose measured arrival rate is 0.
C9_Witness ==
    /\ pc = "done"
    /\ \E k, m \in DOMAIN dataframe :
          /\ CasesInWindow(dataframe[k].timestamp) = {}
          /\ IsNaN(Mean(<<>>))
          /\ IsZero(dataframe[k].average_arrival_rate)
          /\ CasesInWindow(dataframe[m].timestamp) # {}
          /\ IsZero(dataframe[m].average_arrival_rate)

====
